---- MODULE Spec2Model ----
(***************************************************************************)
(* A model of ni/github.py: the GitHub webhook of the CLA bot.  A webhook  *)
(* delivery is classified (Host.process), its contributors are gathered    *)
(* (Host.usernames), their CLA status is aggregated, and Host.update       *)
(* reconciles the pull request's CLA label and comments with that status.  *)
(* Every awaited HTTP call is one step of a delivery.                      *)
(***************************************************************************)
EXTENDS Integers, Sequences, FiniteSets, TLC

(***************************************************************************)
(* Strings the code inspects character by character (labels) are sequences *)
(* of Unicode code points, so that startswith, sorted and parse.quote are  *)
(* computed as Python computes them.                                       *)
(***************************************************************************)
LABEL_PREFIX == <<67, 76, 65, 58, 32>>          \* 'CLA: '

CLA_OK == LABEL_PREFIX \o <<9745>>              \* 'CLA: ' + U+2611

NO_CLA == LABEL_PREFIX \o <<9744>>              \* 'CLA: ' + U+2610

\* Labels a pull request may carry besides the two canonical ones: another
\* label with the CLA prefix ('CLA: x') and a label without it ('bug').
CLA_OTHER == LABEL_PREFIX \o <<120>>

BUG_LABEL == <<98, 117, 103>>

AllLabels == {CLA_OK, NO_CLA, CLA_OTHER, BUG_LABEL}

\* The message templates; a message is the template with its body filled in.
NO_CLA_TEMPLATE == "NO_CLA_TEMPLATE"

NO_CLA_BODY == "NO_CLA_BODY"

NO_USERNAME_BODY == "NO_USERNAME_BODY"

Format(template, body) == [template |-> template, body |-> body]

\* abc.Status
Status == {"signed", "not_signed", "username_not_found"}

\* The actions of a pull_request webhook event.
PullRequestEvent ==
    {"assigned", "unassigned", "labeled", "unlabeled", "opened", "closed",
     "reopened", "synchronize"}

useful_actions == {"opened", "unlabeled", "synchronize"}

\* Python's None, and the marker of a local variable not yet assigned.
None == "None"

Unset == "Unset"

(***************************************************************************)
(* Bounds of the model.                                                    *)
(***************************************************************************)
\* Number of webhook deliveries received in a behaviour.
MaxDeliveries == 2

\* Number of commits in the answer of GET commits_url.
MaxCommits == 1

\* Contributions that can exist at the same time.
Slots == {1, 2}

\* GitHub logins.
Users == {"alice", "bob"}

\* The author of the pull request the deliveries are about.
PRAuthor == "alice"

\* HTTP statuses an outbound call may be answered with.
Responses == {200, 300}

\* Content types of inbound requests.
ContentTypes == {"application/json", "application/x-www-form-urlencoded"}

\* Actions of inbound payloads: the useful ones, two others, and a payload
\* without the key (a ping, a push event).
Absent == "Absent"

PayloadActions == useful_actions \cup {"closed", "labeled", Absent}

(***************************************************************************)
(* Pure helpers.                                                           *)
(***************************************************************************)
\* str.startswith
StartsWith(s, prefix) ==
    /\ Len(s) >= Len(prefix)
    /\ SubSeq(s, 1, Len(prefix)) = prefix

\* Python's str ordering: code point by code point, a proper prefix first.
RECURSIVE LexLess(_, _)
LexLess(a, b) ==
    IF b = <<>> THEN FALSE
    ELSE IF a = <<>> THEN TRUE
    ELSE IF Head(a) # Head(b) THEN Head(a) < Head(b)
    ELSE LexLess(Tail(a), Tail(b))

\* sorted() of a collection of distinct strings.
RECURSIVE Sorted(_)
Sorted(S) ==
    IF S = {} THEN <<>>
    ELSE LET m == CHOOSE x \in S : \A y \in S \ {x} : LexLess(x, y)
         IN  <<m>> \o Sorted(S \ {m})

\* The UTF-8 bytes of a code point (below U+10000).
Utf8(c) ==
    IF c < 128 THEN <<c>>
    ELSE IF c < 2048 THEN <<192 + (c \div 64), 128 + (c % 64)>>
    ELSE <<224 + (c \div 4096), 128 + ((c \div 64) % 64), 128 + (c % 64)>>

\* The code point of an upper-case hexadecimal digit, and back.
HexDigit(n) == IF n < 10 THEN 48 + n ELSE 55 + n

HexValue(c) == IF c < 58 THEN c - 48 ELSE c - 55

\* Characters urllib.parse.quote leaves alone: letters, digits, '_.-~' and
\* the default safe character '/'.
QuoteSafe(c) ==
    \/ c \in 48..57
    \/ c \in 65..90
    \/ c \in 97..122
    \/ c \in {95, 46, 45, 126, 47}

RECURSIVE QuoteBytes(_)
QuoteBytes(bytes) ==
    IF bytes = <<>> THEN <<>>
    ELSE LET b == Head(bytes)
         IN  (IF QuoteSafe(b) THEN <<b>>
              ELSE <<37, HexDigit(b \div 16), HexDigit(b % 16)>>)
             \o QuoteBytes(Tail(bytes))

RECURSIVE Encode(_)
Encode(s) == IF s = <<>> THEN <<>> ELSE Utf8(Head(s)) \o Encode(Tail(s))

\* urllib.parse.quote
Quote(s) == QuoteBytes(Encode(s))

\* What the server makes of a path segment: percent-decoding ...
RECURSIVE UnquoteBytes(_)
UnquoteBytes(q) ==
    IF q = <<>> THEN <<>>
    ELSE IF Head(q) = 37 /\ Len(q) >= 3
         THEN <<16 * HexValue(q[2]) + HexValue(q[3])>>
              \o UnquoteBytes(SubSeq(q, 4, Len(q)))
         ELSE <<Head(q)>> \o UnquoteBytes(Tail(q))

\* ... and UTF-8 decoding.
RECURSIVE Decode(_)
Decode(bytes) ==
    IF bytes = <<>> THEN <<>>
    ELSE LET b == Head(bytes)
         IN  IF b < 128 \/ Len(bytes) < 2
             THEN <<b>> \o Decode(Tail(bytes))
             ELSE IF b < 224 \/ Len(bytes) < 3
             THEN <<(b - 192) * 64 + (bytes[2] - 128)>>
                  \o Decode(SubSeq(bytes, 3, Len(bytes)))
             ELSE <<(b - 224) * 4096 + (bytes[2] - 128) * 64 + (bytes[3] - 128)>>
                  \o Decode(SubSeq(bytes, 4, Len(bytes)))

Unquote(q) == Decode(UnquoteBytes(q))

(***************************************************************************)
(* Inbound requests and what a delivery is made of.                        *)
(***************************************************************************)
\* Where a label is expected: Python's None (also the name of the label of
\* a payload that carries none), and a local variable not yet assigned.
NoLabel == <<>>

Unassigned == <<0>>

\* A webhook request: its content type and, of its JSON payload, whether
\* the key 'zen' is present, the value of 'action' and payload['label']['name'].
Requests ==
    { r \in [content_type : ContentTypes, zen : BOOLEAN,
             action : PayloadActions, label : {NoLabel, NO_CLA, BUG_LABEL}] :
        (r.action \in {"unlabeled", "labeled"}) <=> (r.label # NoLabel) }

NoRequest ==
    [content_type |-> None, zen |-> FALSE, action |-> None, label |-> NoLabel]

NoMessage == Format(None, None)

\* A commit of the answer of GET commits_url.
Commits == [author : Users, committer : Users]

RECURSIVE SeqsUpTo(_, _)
SeqsUpTo(S, n) ==
    IF n = 0 THEN {<<>>}
    ELSE LET shorter == SeqsUpTo(S, n - 1)
         IN  shorter \cup { Append(q, x) : q \in shorter, x \in S }

CommitLists == SeqsUpTo(Commits, MaxCommits)

\* The value of issue_data['labels_url']: a URL template ending in {/name}.
LABELS_URL_TEMPLATE == "labels{/name}"

\* One outbound call as the session saw it.
Call(method, url, name, body_labels, body_message, st) ==
    [method |-> method, url |-> url, name |-> name, labels |-> body_labels,
     message |-> body_message, status |-> st]

\* A delivery that has not been received: no Contribution, nothing awaited.
IdleHost ==
    [pc |-> "idle", request |-> NoRequest, event |-> None, status |-> None,
     labels_url |-> Unset, current_label |-> Unassigned, cla_label |-> Unassigned,
     removed |-> Unassigned,
     commits |-> <<>>, logins |-> {}, lookups |-> <<>>, calls |-> <<>>,
     response |-> 0,
     seqno |-> 0, before |-> [labels |-> {}, comments |-> <<>>]]

VARIABLES
    labels,      \* the labels of the pull request's issue, on GitHub
    comments,    \* the comments of the pull request, on GitHub, oldest first
    host,        \* per slot: the delivery being processed there
    delivered    \* number of deliveries received so far

vars == <<labels, comments, host, delivered>>

Finished == {"done", "failed", "exit", "error"}

(***************************************************************************)
(* The methods of Host, up to their awaited calls.                         *)
(***************************************************************************)
\* Faulty variants of Host.process, which C8 and C9 must tell from it: one
\* that does not look at the name of the removed label, one that answers a
\* ping before it checks the content type.
process_any_label(request) ==
    IF request.content_type # "application/json"
    THEN [result |-> "ResponseExit", status |-> 415, event |-> None]
    ELSE IF request.zen
    THEN [result |-> "ResponseExit", status |-> 204, event |-> None]
    ELSE IF request.action = Absent
    THEN [result |-> "KeyError", status |-> 0, event |-> None]
    ELSE IF request.action \notin useful_actions
    THEN [result |-> "ResponseExit", status |-> 204, event |-> None]
    ELSE [result |-> "Host", status |-> 0, event |-> request.action]

process_ping_first(request) ==
    IF request.zen
    THEN [result |-> "ResponseExit", status |-> 204, event |-> None]
    ELSE IF request.content_type # "application/json"
    THEN [result |-> "ResponseExit", status |-> 415, event |-> None]
    ELSE IF request.action = Absent
    THEN [result |-> "KeyError", status |-> 0, event |-> None]
    ELSE IF request.action \notin useful_actions
    THEN [result |-> "ResponseExit", status |-> 204, event |-> None]
    ELSE IF request.action = "unlabeled"
            /\ ~StartsWith(request.label, LABEL_PREFIX)
    THEN [result |-> "ResponseExit", status |-> 204, event |-> None]
    ELSE [result |-> "Host", status |-> 0, event |-> request.action]

\* Host.process: the classification of a request.
process(request) ==
    IF request.content_type # "application/json"
    THEN [result |-> "ResponseExit", status |-> 415, event |-> None]
    ELSE IF request.zen
    THEN [result |-> "ResponseExit", status |-> 204, event |-> None]
    ELSE IF request.action = Absent
    THEN [result |-> "KeyError", status |-> 0, event |-> None]
    ELSE IF request.action \notin useful_actions
    THEN [result |-> "ResponseExit", status |-> 204, event |-> None]
    ELSE IF request.action = "opened"
    THEN [result |-> "Host", status |-> 0, event |-> "opened"]
    ELSE IF request.action = "unlabeled"
    THEN IF ~StartsWith(request.label, LABEL_PREFIX)
         THEN [result |-> "ResponseExit", status |-> 204, event |-> None]
         ELSE [result |-> "Host", status |-> 0, event |-> "unlabeled"]
    ELSE IF request.action = "synchronize"
    THEN [result |-> "Host", status |-> 0, event |-> "synchronize"]
    ELSE [result |-> "TypeError", status |-> 0, event |-> None]

\* A faulty variant of Host.check_response, which C10 must tell from it: a
\* status of exactly 300 passes.
check_response_above(st) == st > 300

\* Host.check_response: whether the response raises HTTPException.
check_response(st) == st >= 300

\* A faulty variant of Host.usernames, which C16 must tell from it: the
\* committers are left out.
usernames_authors_only(author, commit_list) ==
    {author} \cup { commit_list[i].author : i \in 1..Len(commit_list) }

\* Host.usernames, after its GET: the logins of the author and of every
\* commit's author and committer.
usernames(author, commit_list) ==
    {author}
    \cup { commit_list[i].author : i \in 1..Len(commit_list) }
    \cup { commit_list[i].committer : i \in 1..Len(commit_list) }

\* A faulty variant of the reduction, which C14 must tell from it: a
\* username without signature is looked for before an unknown one.
aggregate_not_signed_first(names, verdict) ==
    IF \E u \in names : verdict[u] = "not_signed"
    THEN "not_signed"
    ELSE IF \E u \in names : verdict[u] = "username_not_found"
    THEN "username_not_found"
    ELSE "signed"

\* The reduction of the per-username verdicts to the status of the PR.
aggregate(names, verdict) ==
    IF \E u \in names : verdict[u] = "username_not_found"
    THEN "username_not_found"
    ELSE IF \E u \in names : verdict[u] = "not_signed"
    THEN "not_signed"
    ELSE "signed"

\* Host.labels_url, once self._labels_url is there: the template with
\* {/name} filled in.
labels_url(label) ==
    IF label = NoLabel THEN <<>> ELSE <<47>> \o Quote(label)

\* A faulty variant of Host.current_label, which C19 must tell from it:
\* the labels are not filtered by the prefix.
current_label_unfiltered(all_labels) ==
    IF all_labels # {} THEN Sorted(all_labels)[1] ELSE NoLabel

\* A faulty variant of Host.current_label, which C15 must tell from it:
\* the last of the sorted CLA labels.
current_label_last(all_labels) ==
    LET cla_labels == Sorted({ x \in all_labels : StartsWith(x, LABEL_PREFIX) })
    IN  IF Len(cla_labels) > 0 THEN cla_labels[Len(cla_labels)] ELSE NoLabel

\* Host.current_label, after its GET: the first of the sorted CLA labels.
current_label(all_labels) ==
    LET cla_labels == Sorted({ x \in all_labels : StartsWith(x, LABEL_PREFIX) })
    IN  IF Len(cla_labels) > 0 THEN cla_labels[1] ELSE NoLabel

\* A faulty variant of Host.set_label, which C3 must tell from it: only
\* not_signed gets NO_CLA.
set_label_not_signed_only(st) == IF st = "not_signed" THEN NO_CLA ELSE CLA_OK

\* Host.set_label: the label posted for a status.
set_label(st) == IF st = "signed" THEN CLA_OK ELSE NO_CLA

\* Host.comment: the message for a status, None when signed.
comment(st) ==
    IF st = "signed" THEN NoMessage
    ELSE IF st = "not_signed" THEN Format(NO_CLA_TEMPLATE, NO_CLA_BODY)
    ELSE Format(NO_CLA_TEMPLATE, NO_USERNAME_BODY)

\* Where a call of Host.comment goes: it returns at once when signed.
comment_entry(st) == IF st = "signed" THEN "done" ELSE "comment"

\* Host.update, from its start to its first awaited call.
update_entry(ev) ==
    IF ev \in {"opened", "unlabeled"} THEN "set_label" ELSE "current_label"

\* A faulty variant, which C4 must tell from the code: the comment is
\* posted for unlabeled too.
after_set_label_commenting(ev, st) == comment_entry(st)

\* Host.update after set_label returned.
after_set_label(ev, st) ==
    IF ev = "opened" THEN comment_entry(st) ELSE "done"

\* Faulty variants, which C5 and C7 must tell from the code: the failing
\* branch does not compare the label; the signed branch compares it with
\* NO_CLA.
needs_removal_unchecked(st, cur) ==
    IF st = "signed" THEN cur # CLA_OK ELSE TRUE

needs_removal_same_label(st, cur) == cur # NO_CLA

\* A faulty variant, which C12 must tell from the code: a pull request
\* without a CLA label is left alone.
needs_removal_when_labelled(st, cur) ==
    cur # NoLabel /\ (IF st = "signed" THEN cur # CLA_OK ELSE cur # NO_CLA)

\* Host.update, synchronize: whether the observed label calls for a removal.
needs_removal(st, cur) ==
    IF st = "signed" THEN cur # CLA_OK ELSE cur # NO_CLA

\* A faulty variant, which C18 must tell from the code: the target label
\* is set once the old one is removed.
after_remove_label_relabel(st) == "set_label"

\* A faulty variant, which C6 must tell from the code: no comment follows
\* the removal.
after_remove_label_silent(st) == "done"

\* Host.update, synchronize, after remove_label returned.
after_remove_label(st) ==
    IF st = "signed" THEN "done" ELSE comment_entry(st)

\* GitHub: the statuses a DELETE of a label can be answered with, and the
\* label a deletion URL names.
DeleteResponses(name) ==
    IF Unquote(Tail(name)) \in labels THEN Responses ELSE {404}

\* The status the webhook's sender receives for a raised exception and for
\* a delivery processed to its end.
SERVER_ERROR == 500

OK == 200

(***************************************************************************)
(* The state machine.                                                      *)
(***************************************************************************)
Init ==
    /\ labels \in SUBSET AllLabels
    /\ comments = <<>>
    /\ host = [s \in Slots |-> IdleHost]
    /\ delivered = 0

\* No delivery is being processed.
Quiescent == \A s \in Slots : host[s].pc \in {"idle"} \cup Finished

\* The first free slot.
FirstIdle(s) ==
    /\ host[s].pc = "idle"
    /\ \A t \in Slots : t < s => host[t].pc # "idle"

\* The delivery of slot s with calls appended to its log and the given
\* fields changed.
Logged(s, call) == [host[s] EXCEPT !.calls = Append(@, call)]

\* The delivery of slot s aborted by the exception its last call raised.
Raised(h) == [h EXCEPT !.pc = "failed", !.response = SERVER_ERROR]

\* The delivery at position next, answered when that is the end of update.
At(h, next) ==
    [h EXCEPT !.pc = next, !.response = IF next = "done" THEN OK ELSE @]

\* A request arrives and Host.process classifies it.
Process(s, request) ==
    /\ FirstIdle(s)
    /\ delivered < MaxDeliveries
    /\ delivered' = delivered + 1
    /\ LET r == process(request)
           h == [IdleHost EXCEPT
                   !.request = request,
                   !.seqno = delivered + 1,
                   !.before = [labels |-> labels, comments |-> comments]]
       IN  host' = [host EXCEPT ![s] =
             IF r.result = "ResponseExit"
             THEN [h EXCEPT !.pc = "exit", !.response = r.status]
             ELSE IF r.result = "Host"
             THEN [h EXCEPT !.pc = "usernames", !.event = r.event]
             ELSE [h EXCEPT !.pc = "error", !.response = SERVER_ERROR]]
    /\ UNCHANGED <<labels, comments>>

Receive(s) == \E request \in Requests : Process(s, request)

\* Host.usernames: GET commits_url.
Usernames(s) ==
    /\ host[s].pc = "usernames"
    /\ \E st \in Responses, commit_list \in CommitLists :
         LET h == Logged(s, Call("GET", "commits_url", <<>>, <<>>, NoMessage, st))
         IN  host' = [host EXCEPT ![s] =
               IF check_response(st) THEN Raised(h)
               ELSE [h EXCEPT !.pc = "check_cla",
                              !.commits = commit_list,
                              !.logins = usernames(PRAuthor, commit_list)]]
    /\ UNCHANGED <<labels, comments, delivered>>

\* The CLA records are looked up for every username, the verdicts are
\* aggregated and Host.update starts.
CheckCLA(s) ==
    /\ host[s].pc = "check_cla"
    /\ \E verdict \in [Users -> Status] :
         host' = [host EXCEPT ![s] =
           [At(host[s], update_entry(host[s].event)) EXCEPT
              !.status = aggregate(host[s].logins, verdict),
              !.commits = <<>>,
              !.logins = {}]]
    /\ UNCHANGED <<labels, comments, delivered>>

\* A faulty variant of the fetch in Host.labels_url, which C11 must tell
\* from it: the answer is not kept in self._labels_url.
GetIssue_forgetful(s) ==
    /\ host[s].pc \in {"set_label", "current_label", "remove_label", "delete"}
    /\ host[s].labels_url = Unset
    /\ \E st \in Responses :
         LET h == Logged(s, Call("GET", "issue_url", <<>>, <<>>, NoMessage, st))
         IN  host' = [host EXCEPT ![s] = IF check_response(st) THEN Raised(h) ELSE h]
    /\ UNCHANGED <<labels, comments, delivered>>

\* Host.labels_url without self._labels_url: GET issue_url.
GetIssue(s) ==
    /\ host[s].pc \in {"set_label", "current_label", "remove_label", "delete"}
    /\ host[s].labels_url = Unset
    /\ \E st \in Responses :
         LET h == Logged(s, Call("GET", "issue_url", <<>>, <<>>, NoMessage, st))
         IN  host' = [host EXCEPT ![s] =
               IF check_response(st) THEN Raised(h)
               ELSE [h EXCEPT !.labels_url = LABELS_URL_TEMPLATE]]
    /\ UNCHANGED <<labels, comments, delivered>>

\* Host.set_label: POST labels_url.
SetLabel(s) ==
    /\ host[s].pc = "set_label"
    /\ host[s].labels_url # Unset
    /\ \E st \in Responses :
         LET label == set_label(host[s].status)
             h == Logged(s, Call("POST", "labels_url", labels_url(NoLabel),
                                 <<label>>, NoMessage, st))
         IN  IF check_response(st)
             THEN /\ host' = [host EXCEPT ![s] = Raised(h)]
                  /\ UNCHANGED labels
             ELSE /\ host' = [host EXCEPT ![s] =
                        At(h, after_set_label(h.event, h.status))]
                  /\ labels' = labels \cup {label}
    /\ UNCHANGED <<comments, delivered>>

\* Host.current_label: GET labels_url, for Host.update (synchronize) and for
\* Host.remove_label.
CurrentLabel(s) ==
    /\ host[s].pc \in {"current_label", "remove_label"}
    /\ host[s].labels_url # Unset
    /\ \E st \in Responses :
         LET h == Logged(s, Call("GET", "labels_url", labels_url(NoLabel),
                                 <<>>, NoMessage, st))
             found == current_label(labels)
         IN  host' = [host EXCEPT ![s] =
               IF check_response(st) THEN Raised(h)
               ELSE IF h.pc = "current_label"
               THEN [At(h, IF needs_removal(h.status, found)
                           THEN "remove_label" ELSE "done")
                       EXCEPT !.current_label = found]
               ELSE IF found = NoLabel
               THEN [At(h, after_remove_label(h.status))
                       EXCEPT !.cla_label = found, !.removed = NoLabel]
               ELSE [At(h, "delete") EXCEPT !.cla_label = found]]
    /\ UNCHANGED <<labels, comments, delivered>>

\* Host.remove_label: DELETE of the label's URL.
RemoveLabel(s) ==
    /\ host[s].pc = "delete"
    /\ host[s].labels_url # Unset
    /\ LET deletion_url == labels_url(host[s].cla_label)
       IN  \E st \in DeleteResponses(deletion_url) :
             LET h == Logged(s, Call("DELETE", "labels_url", deletion_url,
                                     <<>>, NoMessage, st))
             IN  IF check_response(st)
                 THEN /\ host' = [host EXCEPT ![s] = Raised(h)]
                      /\ UNCHANGED labels
                 ELSE /\ host' = [host EXCEPT ![s] =
                            [At(h, after_remove_label(h.status))
                               EXCEPT !.removed = h.cla_label]]
                      /\ labels' = labels \ {Unquote(Tail(deletion_url))}
    /\ UNCHANGED <<comments, delivered>>

\* Host.comment: POST comments_url.
Comment(s) ==
    /\ host[s].pc = "comment"
    /\ \E st \in Responses :
         LET message == comment(host[s].status)
             h == Logged(s, Call("POST", "comments_url", <<>>, <<>>, message, st))
         IN  IF check_response(st)
             THEN /\ host' = [host EXCEPT ![s] = Raised(h)]
                  /\ UNCHANGED comments
             ELSE /\ host' = [host EXCEPT ![s] = At(h, "done")]
                  /\ comments' = Append(comments, message)
    /\ UNCHANGED <<labels, delivered>>

\* The Contribution of a finished delivery is discarded, the oldest first,
\* when no slot is free for the next delivery.
Discard(s) ==
    /\ \A t \in Slots : host[t].pc \in Finished /\ host[s].seqno <= host[t].seqno
    /\ host' = [host EXCEPT ![s] = IdleHost]
    /\ UNCHANGED <<labels, comments, delivered>>

\* Deliveries are processed to completion, one after the other.
Next ==
    \E s \in Slots :
        \/ Quiescent /\ Receive(s)
        \/ Usernames(s)
        \/ CheckCLA(s)
        \/ GetIssue(s)
        \/ SetLabel(s)
        \/ CurrentLabel(s)
        \/ RemoveLabel(s)
        \/ Comment(s)
        \/ Discard(s)

Spec == Init /\ [][Next]_vars

(***************************************************************************)
(* The aggregation of the CLA status on its own: what CheckCLA does in one *)
(* step, with the lookups of the usernames issued concurrently and         *)
(* completing one by one, in any order.                                    *)
(***************************************************************************)
\* The usernames looked up: those of the deliveries and one more.
CLAUsers == Users \cup {"carol"}

\* The usernames of slot s whose lookup has completed.
LookedUp(s) ==
    { host[s].lookups[i].user : i \in 1..Len(host[s].lookups) }

\* The verdict the lookup of u returned.
VerdictOf(s, u) ==
    LET i == CHOOSE j \in 1..Len(host[s].lookups) : host[s].lookups[j].user = u
    IN  host[s].lookups[i].verdict

\* A delivery whose usernames have just been gathered.
InitCLA ==
    /\ labels = {}
    /\ comments = <<>>
    /\ delivered = 1
    /\ host \in
         { [s \in Slots |->
              IF s = 1
              THEN [IdleHost EXCEPT
                      !.pc = "check_cla",
                      !.request = [content_type |-> "application/json",
                                   zen |-> FALSE, action |-> ev,
                                   label |-> NoLabel],
                      !.event = ev,
                      !.logins = names,
                      !.seqno = 1]
              ELSE IdleHost] :
           names \in (SUBSET CLAUsers) \ {{}},
           ev \in {"opened", "synchronize"} }

\* The lookup of one username completes.
Lookup(s, u) ==
    /\ host[s].pc = "check_cla"
    /\ u \in host[s].logins \ LookedUp(s)
    /\ \E v \in Status :
         host' = [host EXCEPT ![s].lookups =
                    Append(@, [user |-> u, verdict |-> v])]
    /\ UNCHANGED <<labels, comments, delivered>>

\* All lookups have returned: the rule is applied and Host.update starts.
Aggregate(s) ==
    /\ host[s].pc = "check_cla"
    /\ LookedUp(s) = host[s].logins
    /\ host' = [host EXCEPT ![s] =
         [At(host[s], update_entry(host[s].event)) EXCEPT
            !.status = aggregate(host[s].logins,
                                 [u \in host[s].logins |-> VerdictOf(s, u)])]]
    /\ UNCHANGED <<labels, comments, delivered>>

NextCLA ==
    \E s \in Slots :
        \/ \E u \in CLAUsers : Lookup(s, u)
        \/ Aggregate(s)

SpecCLA == InitCLA /\ [][NextCLA]_vars

(***************************************************************************)
(* Vocabulary of the properties.                                           *)
(***************************************************************************)
\* A call that changes the pull request.
Mutating(c) == c.method \in {"POST", "DELETE"}

Succeeded(c) == c.status < 300

\* The calls of a delivery that change the pull request, in order.
Mutations(h) == SelectSeq(h.calls, Mutating)

IsDelete(c) == c.method = "DELETE" /\ c.url = "labels_url"

\* The label the server takes a DELETE to name.
Deleted(c) == Unquote(Tail(c.name))

\* A call without the status it was answered with; a DELETE is told by the
\* label it names to the server.
Shape(c) ==
    [method |-> c.method, url |-> c.url,
     name |-> IF IsDelete(c) THEN Deleted(c) ELSE c.name,
     labels |-> c.labels, message |-> c.message]

Shapes(q) == [i \in 1..Len(q) |-> Shape(q[i])]

IsPrefix(p, q) == Len(p) <= Len(q) /\ p = SubSeq(q, 1, Len(p))

\* The calls the properties speak of.
LabelPost(label) ==
    [method |-> "POST", url |-> "labels_url", name |-> <<>>,
     labels |-> <<label>>, message |-> NoMessage]

CommentPost(body) ==
    [method |-> "POST", url |-> "comments_url", name |-> <<>>,
     labels |-> <<>>, message |-> Format(NO_CLA_TEMPLATE, body)]

LabelDelete(label) ==
    [method |-> "DELETE", url |-> "labels_url", name |-> label,
     labels |-> <<>>, message |-> NoMessage]

\* The label the status asks for, and the body of the comment it asks for.
Target(st) == IF st = "signed" THEN CLA_OK ELSE NO_CLA

BodyFor(st) == IF st = "not_signed" THEN NO_CLA_BODY ELSE NO_USERNAME_BODY

\* Every call of q but the last was answered with success.
OnlyLastMayFail(q) == \A i \in 1..Len(q) - 1 : Succeeded(q[i])

AllSucceeded(q) == \A i \in 1..Len(q) : Succeeded(q[i])

\* The delivery h has made, in order, the changing calls of plan and no
\* other: each only after the one before it succeeded, and all of them,
\* with success, once it is processed to the end.
Follows(h, plan) ==
    LET made == Mutations(h)
    IN  /\ IsPrefix(Shapes(made), plan)
        /\ OnlyLastMayFail(made)
        /\ h.pc = "done" => Shapes(made) = plan /\ AllSucceeded(made)

\* The delivery of slot s is the latest one received: with deliveries
\* processed one after the other, the pull request is as it left it.
Latest(s) == host[s].seqno = delivered /\ host[s].pc # "idle"

\* Slot b holds the delivery received right after the one of slot a, both
\* were processed to the end of Host.update, with the same event and status.
Repeated(a, b) ==
    /\ host[a].pc = "done" /\ host[b].pc = "done"
    /\ host[b].seqno = host[a].seqno + 1
    /\ host[a].event = host[b].event
    /\ host[a].status = host[b].status

\* The pull request is as it was when the delivery of slot s was received.
Untouched(s) ==
    /\ labels = host[s].before.labels
    /\ comments = host[s].before.comments

(***************************************************************************)
(* C1: processing the same event twice in a row with the same status       *)
(* leaves the labels and comments of the pull request as processing it     *)
(* once left them.                                                         *)
(***************************************************************************)
C1_Idempotent ==
    \A a, b \in Slots : Repeated(a, b) /\ Latest(b) => Untouched(b)

(***************************************************************************)
(* C2: a synchronize event processed a second time with the same status,   *)
(* right after a first successful run, makes no further call that changes  *)
(* the pull request (the reads every run starts with are not counted).     *)
(***************************************************************************)
C2_SecondSynchronizeSilent ==
    \A a, b \in Slots :
        Repeated(a, b) /\ host[b].event = "synchronize"
            => Mutations(host[b]) = <<>>

(***************************************************************************)
(* C3: for an opened event Host.update issues exactly one label-set POST,  *)
(* with body [CLA_OK] when signed and [NO_CLA] otherwise, and then, only   *)
(* after that POST succeeded, exactly one comment POST with the template   *)
(* of the status unless the status is signed; it issues no DELETE.         *)
(***************************************************************************)
C3_Opened ==
    \A s \in Slots :
        host[s].event = "opened" /\ host[s].status # None =>
            Follows(host[s],
                    <<LabelPost(Target(host[s].status))>>
                    \o (IF host[s].status = "signed" THEN <<>>
                        ELSE <<CommentPost(BodyFor(host[s].status))>>))

C3_Witness ==
    \E s \in Slots :
        /\ host[s].event = "opened" /\ host[s].pc = "done"
        /\ host[s].status = "username_not_found"
        /\ Len(Mutations(host[s])) = 2

(***************************************************************************)
(* C4: for an unlabeled event Host.update issues exactly one label-set     *)
(* POST (body [CLA_OK] if signed, [NO_CLA] otherwise), never posts a       *)
(* comment and never issues a DELETE.                                      *)
(***************************************************************************)
C4_Unlabeled ==
    \A s \in Slots :
        host[s].event = "unlabeled" /\ host[s].status # None =>
            Follows(host[s], <<LabelPost(Target(host[s].status))>>)

C4_Witness ==
    \E s \in Slots :
        /\ host[s].event = "unlabeled" /\ host[s].pc = "done"
        /\ host[s].status = "not_signed"
        /\ Len(Mutations(host[s])) = 1

\* Host.update has observed the current label of a synchronize event.
Observed(s) ==
    /\ host[s].event = "synchronize"
    /\ host[s].current_label # Unassigned

(***************************************************************************)
(* C5: a synchronize event whose observed label already matches the target *)
(* of the status is a no-op: no DELETE, no label POST, no comment POST,    *)
(* and the labels and comments of the pull request are unchanged.          *)
(***************************************************************************)
C5_SynchronizeNoOp ==
    \A s \in Slots :
        Observed(s) /\ host[s].current_label = Target(host[s].status) =>
            /\ host[s].pc = "done"
            /\ Mutations(host[s]) = <<>>
            /\ Latest(s) => Untouched(s)

C5_Witness ==
    \E s \in Slots :
        /\ Observed(s) /\ host[s].pc = "done"
        /\ host[s].status = "not_signed" /\ host[s].current_label = NO_CLA
        /\ CLA_OK \in labels

\* The one removal a synchronize event makes of the label it observed.
Removal(cur) == IF cur = NoLabel THEN <<>> ELSE <<LabelDelete(cur)>>

(***************************************************************************)
(* C6: a synchronize event with status not_signed or username_not_found    *)
(* and an observed label other than NO_CLA removes the CLA label present   *)
(* (one DELETE of it, none when there is none) and then posts exactly one  *)
(* comment with the template of the status, only after the removal step    *)
(* has completed; no label-set POST is issued.                             *)
(***************************************************************************)
C6_SynchronizeFailing ==
    \A s \in Slots :
        Observed(s) /\ host[s].status # "signed"
                    /\ host[s].current_label # NO_CLA =>
            LET h == host[s]
                message == Format(NO_CLA_TEMPLATE, BodyFor(h.status))
            IN  /\ Follows(h, Removal(h.current_label)
                              \o <<CommentPost(BodyFor(h.status))>>)
                /\ (\E i \in 1..Len(h.calls) : h.calls[i].url = "comments_url")
                       => h.cla_label = h.current_label
                /\ h.pc = "done" /\ Latest(s) =>
                       /\ labels = h.before.labels \ {h.current_label}
                       /\ comments = Append(h.before.comments, message)

C6_Witness ==
    \E s \in Slots :
        /\ Observed(s) /\ host[s].pc = "done"
        /\ host[s].status = "not_signed" /\ host[s].current_label = CLA_OK
        /\ Len(Mutations(host[s])) = 2

(***************************************************************************)
(* C7: a synchronize event with status signed and an observed label other  *)
(* than CLA_OK removes the CLA label present (at most one DELETE) and      *)
(* posts no comment.                                                       *)
(***************************************************************************)
C7_SynchronizeSigned ==
    \A s \in Slots :
        Observed(s) /\ host[s].status = "signed"
                    /\ host[s].current_label # CLA_OK =>
            LET h == host[s]
            IN  /\ Follows(h, Removal(h.current_label))
                /\ h.pc = "done" /\ Latest(s) =>
                       /\ labels = h.before.labels \ {h.current_label}
                       /\ comments = h.before.comments

C7_Witness ==
    \E s \in Slots :
        /\ Observed(s) /\ host[s].pc = "done"
        /\ host[s].status = "signed" /\ host[s].current_label = NO_CLA
        /\ Len(Mutations(host[s])) = 1

\* The request of slot s, of content type JSON, is one Host.process makes
\* a Contribution of ...
Useful(r) ==
    /\ ~r.zen
    /\ \/ r.action \in {"opened", "synchronize"}
       \/ r.action = "unlabeled" /\ StartsWith(r.label, LABEL_PREFIX)

\* ... or one that needs no action: a ping, an action other than the three,
\* the removal of a label without the CLA prefix.
Uninteresting(r) ==
    \/ r.zen
    \/ r.action \in PullRequestEvent \ {"opened", "unlabeled", "synchronize"}
    \/ r.action = "unlabeled" /\ ~StartsWith(r.label, LABEL_PREFIX)

Received(s) == host[s].pc # "idle"

Json(s) == host[s].request.content_type = "application/json"

(***************************************************************************)
(* C8: Host.process constructs a Contribution only for opened, synchronize *)
(* and unlabeled of a label with the CLA prefix, tagged with the event of  *)
(* the action; a ping, any other action and unlabeled of another label end *)
(* with the 204 exit, no Contribution and no outbound call.  So the event  *)
(* Host.update sees is always one of the three kinds.                      *)
(***************************************************************************)
C8_Classification ==
    \A s \in Slots :
        Received(s) =>
            LET h == host[s]
            IN  /\ h.event # None <=> Json(s) /\ Useful(h.request)
                /\ h.event # None => h.event = h.request.action
                /\ Json(s) /\ Uninteresting(h.request) =>
                       /\ h.pc = "exit" /\ h.response = 204
                       /\ h.calls = <<>>
                /\ h.status # None =>
                       h.event \in {"opened", "unlabeled", "synchronize"}

C8_Witness ==
    \E a, b \in Slots :
        /\ host[a].pc = "exit" /\ Json(a) /\ host[a].request.zen
        /\ host[a].request.action = "opened"
        /\ host[b].pc = "done" /\ host[b].event = "unlabeled"

(***************************************************************************)
(* C9: Host.process ends with the 415 exit whenever the content type is    *)
(* not application/json, whatever the payload; no Contribution is          *)
(* constructed, no outbound call is made and nothing changes.              *)
(***************************************************************************)
C9_UnsupportedMediaType ==
    \A s \in Slots :
        Received(s) /\ ~Json(s) =>
            /\ host[s].pc = "exit" /\ host[s].response = 415
            /\ host[s].event = None
            /\ host[s].calls = <<>>
            /\ Latest(s) => Untouched(s)

C9_Witness ==
    \E a, b \in Slots :
        /\ Received(a) /\ ~Json(a) /\ host[a].request.zen
        /\ Received(b) /\ ~Json(b) /\ host[b].request.action = Absent
        /\ ~host[b].request.zen

\* The labels and the comments of the pull request after the successful
\* calls of q, in order.
RECURSIVE LabelsAfter(_, _)
LabelsAfter(ls, q) ==
    IF q = <<>> THEN ls
    ELSE LET c == Head(q)
         IN  LabelsAfter(
               IF ~Succeeded(c) \/ c.url # "labels_url" THEN ls
               ELSE IF c.method = "DELETE" THEN ls \ {Deleted(c)}
               ELSE IF c.method = "POST"
                    THEN ls \cup { c.labels[i] : i \in 1..Len(c.labels) }
               ELSE ls,
               Tail(q))

RECURSIVE CommentsAfter(_, _)
CommentsAfter(cs, q) ==
    IF q = <<>> THEN cs
    ELSE LET c == Head(q)
         IN  CommentsAfter(
               IF Succeeded(c) /\ c.method = "POST" /\ c.url = "comments_url"
               THEN Append(cs, c.message) ELSE cs,
               Tail(q))

(***************************************************************************)
(* C10: when an outbound call is answered with a status >= 300 the         *)
(* delivery fails with a transport error at that call: it makes no later   *)
(* call (no comment after a failed label set or removal, no retry), and    *)
(* the changes applied before the failure stay in place.                   *)
(***************************************************************************)
C10_TransportError ==
    \A s \in Slots :
        LET h == host[s]
            q == h.calls
        IN  /\ \A i \in 1..Len(q) :
                 q[i].status >= 300 =>
                     /\ i = Len(q)
                     /\ h.pc = "failed" /\ h.response = 500
            /\ h.pc = "failed" => Len(q) > 0 /\ q[Len(q)].status >= 300
            /\ Latest(s) =>
                 /\ labels = LabelsAfter(h.before.labels, q)
                 /\ comments = CommentsAfter(h.before.comments, q)

C10_Witness ==
    \E s \in Slots :
        /\ host[s].pc = "failed" /\ host[s].event = "opened"
        /\ Len(Mutations(host[s])) = 2
        /\ NO_CLA \in labels /\ NO_CLA \notin host[s].before.labels
        /\ comments = host[s].before.comments

\* The positions, in the log of a delivery, of the calls to a URL.
CallsTo(h, url) == { i \in 1..Len(h.calls) : h.calls[i].url = url }

(***************************************************************************)
(* C11: within one Contribution the issue is fetched (GET issue_url) at    *)
(* most once, before the first call to the labels URL, however many label  *)
(* operations follow; it is not fetched by a delivery that performs no     *)
(* label operation, and a fetch that failed leaves nothing cached.         *)
(***************************************************************************)
C11_IssueFetchedOnce ==
    \A s \in Slots :
        LET h == host[s]
            fetches == CallsTo(h, "issue_url")
        IN  /\ Cardinality(fetches) <= 1
            /\ \A i \in fetches, j \in CallsTo(h, "labels_url") :
                   i < j /\ Succeeded(h.calls[i])
            /\ CallsTo(h, "labels_url") # {} => fetches # {}
            /\ h.labels_url # Unset <=>
                   \E i \in fetches : Succeeded(h.calls[i])
            /\ h.status = None => fetches = {}

C11_Witness ==
    \E s \in Slots :
        /\ host[s].pc = "done"
        /\ Cardinality(CallsTo(host[s], "labels_url")) = 3
        /\ Cardinality(CallsTo(host[s], "issue_url")) = 1

\* The labels with the CLA prefix among ls, and the one there is when there
\* is at most one (None when there is none).
ClaLabels(ls) == { x \in ls : StartsWith(x, LABEL_PREFIX) }

AtMostOneCla(ls) == Cardinality(ClaLabels(ls)) <= 1

TheClaLabel(ls) ==
    IF ClaLabels(ls) = {} THEN NoLabel ELSE CHOOSE x \in ClaLabels(ls) : TRUE

\* What one error-free processing of an event makes of a pull request
\* with at most one CLA label.
ProcessedLabels(ev, st, ls) ==
    IF ev \in {"opened", "unlabeled"} THEN ls \cup {Target(st)}
    ELSE IF TheClaLabel(ls) = Target(st) THEN ls
    ELSE ls \ ClaLabels(ls)

ProcessedComments(ev, st, ls, cs) ==
    IF \/ st = "signed"
       \/ ev = "unlabeled"
       \/ ev = "synchronize" /\ TheClaLabel(ls) = NO_CLA
    THEN cs
    ELSE Append(cs, Format(NO_CLA_TEMPLATE, BodyFor(st)))

\* The pull request is what one error-free processing of the event of slot
\* b, with its status, makes of the state recorded in was.
ProcessedFrom(b, was) ==
    /\ labels =
         ProcessedLabels(host[b].event, host[b].status, was.labels)
    /\ comments =
         ProcessedComments(host[b].event, host[b].status, was.labels,
                           was.comments)

\* Slot b holds the error-free redelivery of the event of slot a, which a
\* transport error aborted, with the status a had if it got one.
Redelivered(a, b) ==
    /\ host[a].pc = "failed" /\ host[b].pc = "done"
    /\ host[b].seqno = host[a].seqno + 1
    /\ host[a].request = host[b].request
    /\ host[a].status \in {None, host[b].status}

(***************************************************************************)
(* C12: on a pull request with at most one CLA label, a delivery aborted   *)
(* by a transport error at any of its calls, followed by the error-free    *)
(* redelivery of the same event with the same status, leaves the labels    *)
(* and comments that one error-free processing of the event produces.      *)
(***************************************************************************)
C12_RedeliveryConverges ==
    \A a, b \in Slots :
        /\ host[b].pc = "done" /\ Latest(b)
                /\ AtMostOneCla(host[b].before.labels)
             => ProcessedFrom(b, host[b].before)
        /\ Redelivered(a, b) /\ Latest(b)
                /\ AtMostOneCla(host[a].before.labels)
             => ProcessedFrom(b, host[a].before)

C12_Witness ==
    \E a, b \in Slots :
        /\ Redelivered(a, b) /\ Latest(b)
        /\ host[a].event = "synchronize" /\ host[a].status = "not_signed"
        /\ host[a].before.labels = {CLA_OK, BUG_LABEL}
        /\ Len(Mutations(host[a])) = 2
        /\ Len(comments) = 1

\* Every delivery received so far was processed to the end of Host.update,
\* the first of them on a pull request without a CLA label.
AllProcessedFromUnlabelled ==
    /\ \E a \in Slots :
         host[a].seqno = 1 /\ ClaLabels(host[a].before.labels) = {}
    /\ \A s \in Slots : host[s].pc \in {"idle", "done"}

(***************************************************************************)
(* C13: starting from a pull request without a CLA label, after any        *)
(* sequence of successfully processed opened, unlabeled and synchronize    *)
(* deliveries with arbitrary statuses, the pull request carries at most    *)
(* one label with the CLA prefix, and it is CLA_OK or NO_CLA.              *)
(***************************************************************************)
C13_AtMostOneCanonicalLabel ==
    AllProcessedFromUnlabelled =>
        /\ Cardinality(ClaLabels(labels)) <= 1
        /\ ClaLabels(labels) \subseteq {CLA_OK, NO_CLA}

\* The verdicts the lookups of slot s returned.
Verdicts(s) ==
    { host[s].lookups[i].verdict : i \in 1..Len(host[s].lookups) }

\* The lookups of slot s, in the order they completed, as usernames.
CompletionOrder(s) ==
    [i \in 1..Len(host[s].lookups) |-> host[s].lookups[i].user]

(***************************************************************************)
(* C14: for every non-empty username set and every assignment of verdicts  *)
(* the status of the PR is username_not_found if any lookup returned it,   *)
(* else not_signed if any returned that, else signed, in whatever order    *)
(* the concurrent lookups completed.                                       *)
(***************************************************************************)
C14_Aggregation ==
    \A s \in Slots :
        host[s].status # None =>
            /\ LookedUp(s) = host[s].logins
            /\ Len(host[s].lookups) = Cardinality(host[s].logins)
            /\ host[s].status =
                 IF "username_not_found" \in Verdicts(s)
                 THEN "username_not_found"
                 ELSE IF "not_signed" \in Verdicts(s) THEN "not_signed"
                 ELSE "signed"

C14_Witness ==
    \E s \in Slots :
        /\ host[s].status = "username_not_found"
        /\ CompletionOrder(s) = <<"carol", "bob", "alice">>
        /\ VerdictOf(s, "alice") = "signed"
        /\ VerdictOf(s, "bob") = "username_not_found"
        /\ VerdictOf(s, "carol") = "not_signed"

\* The lexicographically first CLA label among ls, None when there is none:
\* 'CLA: x' comes before 'CLA: ' + U+2610, which comes before
\* 'CLA: ' + U+2611.
FirstCla(ls) ==
    IF CLA_OTHER \in ls THEN CLA_OTHER
    ELSE IF NO_CLA \in ls THEN NO_CLA
    ELSE IF CLA_OK \in ls THEN CLA_OK
    ELSE NoLabel

\* The DELETE calls of a delivery, in order.
Deletes(h) == SelectSeq(h.calls, IsDelete)

CommitsFetchFailed(h) ==
    /\ Len(h.calls) = 1
    /\ h.calls[1].url = "commits_url"
    /\ h.calls[1].status >= 300

(***************************************************************************)
(* C16: Host.usernames returns exactly the login of the PR's author        *)
(* together with the author and committer logins of every commit that GET  *)
(* commits_url returned (so the PR's author is always in it); when that    *)
(* GET is answered with a status >= 300 the call fails with a transport    *)
(* error and there is no set.                                              *)
(***************************************************************************)
C16_Usernames ==
    \A s \in Slots :
        LET h == host[s]
        IN  /\ h.pc = "check_cla" =>
                 /\ PRAuthor \in h.logins
                 /\ \A u \in Users :
                      u \in h.logins <=>
                          \/ u = PRAuthor
                          \/ \E i \in 1..Len(h.commits) :
                               u \in {h.commits[i].author,
                                      h.commits[i].committer}
                 /\ h.logins \subseteq Users
            /\ CommitsFetchFailed(h) =>
                 h.pc = "failed" /\ h.logins = {} /\ h.status = None

C16_Witness ==
    \E a, b \in Slots :
        /\ CommitsFetchFailed(host[a])
        /\ host[b].pc = "check_cla"
        /\ host[b].commits = <<[author |-> "alice", committer |-> "bob"]>>
        /\ host[b].logins = {"alice", "bob"}

(***************************************************************************)
(* Deliveries processed concurrently: the server handles each request in   *)
(* a coroutine of its own, so a delivery is received while another is      *)
(* suspended at one of its calls, and their calls interleave.              *)
(***************************************************************************)
NextConcurrent ==
    \E s \in Slots :
        \/ Receive(s)
        \/ Usernames(s)
        \/ CheckCLA(s)
        \/ GetIssue(s)
        \/ SetLabel(s)
        \/ CurrentLabel(s)
        \/ RemoveLabel(s)
        \/ Comment(s)
        \/ Discard(s)

SpecConcurrent == Init /\ [][NextConcurrent]_vars

(***************************************************************************)
(* C17: after a successfully processed synchronize delivery, whatever the  *)
(* labels were (more than one CLA label included), the pull request        *)
(* carries no CLA label that contradicts the status: no CLA_OK when the    *)
(* status is not_signed or username_not_found, no NO_CLA when it is        *)
(* signed.                                                                 *)
(***************************************************************************)
C17_NoContradictingLabel ==
    \A s \in Slots :
        host[s].event = "synchronize" /\ host[s].pc = "done" /\ Latest(s) =>
            IF host[s].status = "signed"
            THEN NO_CLA \notin labels
            ELSE CLA_OK \notin labels

\* The label-set POSTs of a delivery.
IsLabelPost(c) == c.method = "POST" /\ c.url = "labels_url"

LabelPosts(h) == SelectSeq(h.calls, IsLabelPost)

(***************************************************************************)
(* C18: a synchronize delivery never adds a label: it issues no label-set  *)
(* POST, and the labels after it are those before it less at most one; a   *)
(* pull request whose status became signed goes from NO_CLA to no CLA      *)
(* label, and CLA_OK appears only through an opened or unlabeled delivery. *)
(***************************************************************************)
C18_SynchronizeOnlyRemoves ==
    \A s \in Slots :
        LET h == host[s]
        IN  /\ h.event = "synchronize" =>
                 /\ LabelPosts(h) = <<>>
                 /\ Latest(s) =>
                      /\ labels \subseteq h.before.labels
                      /\ Cardinality(h.before.labels \ labels) <= 1
                 /\ Latest(s) /\ h.pc = "done" /\ h.status = "signed"
                        /\ ClaLabels(h.before.labels) = {NO_CLA}
                      => ClaLabels(labels) = {}
            /\ Latest(s) /\ CLA_OK \in labels \ h.before.labels =>
                 h.event \in {"opened", "unlabeled"}

C18_Witness ==
    \E s \in Slots :
        /\ host[s].event = "synchronize" /\ host[s].pc = "done"
        /\ host[s].status = "signed" /\ Latest(s)
        /\ host[s].before.labels = {NO_CLA, BUG_LABEL}
        /\ labels = {BUG_LABEL}

\* The labels without the CLA prefix among ls.
OtherLabels(ls) == ls \ ClaLabels(ls)

(***************************************************************************)
(* C19: no delivery removes or adds a label without the CLA prefix: every  *)
(* DELETE names a label with the prefix that the delivery observed on the  *)
(* pull request, every label-set POST carries exactly one of CLA_OK and    *)
(* NO_CLA, and the other labels of the pull request never change.          *)
(***************************************************************************)
C19_OtherLabelsUntouched ==
    \A s \in Slots :
        LET h == host[s]
        IN  /\ \A i \in 1..Len(Deletes(h)) :
                 /\ StartsWith(Deleted(Deletes(h)[i]), LABEL_PREFIX)
                 /\ Deleted(Deletes(h)[i]) = h.cla_label
                 /\ Deleted(Deletes(h)[i]) \in h.before.labels
            /\ \A i \in 1..Len(LabelPosts(h)) :
                 LabelPosts(h)[i].labels \in {<<CLA_OK>>, <<NO_CLA>>}
            /\ Latest(s) =>
                 OtherLabels(labels) = OtherLabels(h.before.labels)

C19_Witness ==
    \E a, b \in Slots :
        /\ host[a].pc = "done" /\ host[b].pc = "done" /\ Latest(b)
        /\ Len(Deletes(host[a])) = 1 /\ Len(LabelPosts(host[b])) = 1
        /\ BUG_LABEL \in host[a].before.labels
        /\ BUG_LABEL \in labels

\* What one error-free processing of an event makes of the labels of a pull
\* request, whatever its labels, and the number of comments it posts.
SerialLabels(ev, st, ls) ==
    IF ev \in {"opened", "unlabeled"} THEN ls \cup {Target(st)}
    ELSE IF FirstCla(ls) = Target(st) THEN ls
    ELSE ls \ {FirstCla(ls)}

SerialComments(ev, st, ls) ==
    IF st # "signed" /\ \/ ev = "opened"
                        \/ ev = "synchronize" /\ FirstCla(ls) # NO_CLA
    THEN 1 ELSE 0

\* Deliveries processed one after the other do what SerialLabels and
\* SerialComments say.
SerialProcessing ==
    \A s \in Slots :
        host[s].pc = "done" /\ Latest(s) =>
            LET h == host[s]
            IN  /\ labels = SerialLabels(h.event, h.status, h.before.labels)
                /\ Len(comments) = Len(h.before.comments)
                     + SerialComments(h.event, h.status, h.before.labels)

\* The pull request is what processing the delivery of slot a and then the
\* one of slot b, without errors, makes of the state recorded in was.
SeriallyProcessed(a, b, was) ==
    LET mid == SerialLabels(host[a].event, host[a].status, was.labels)
    IN  /\ ClaLabels(labels) =
             ClaLabels(SerialLabels(host[b].event, host[b].status, mid))
        /\ Len(comments) = Len(was.comments)
             + SerialComments(host[a].event, host[a].status, was.labels)
             + SerialComments(host[b].event, host[b].status, mid)

\* A DELETE answered 404: the label it names, which the delivery saw on the
\* pull request, was removed by the other delivery in between.
LostRace(h) == \E i \in 1..Len(h.calls) : h.calls[i].status = 404

(***************************************************************************)
(* C20: when the calls of two deliveries for the same pull request         *)
(* interleave, neither fails with a transport error because of the other,  *)
(* and once both are processed to the end the CLA labels and the number of *)
(* comments of the pull request are those of processing the two one after  *)
(* the other in some order.                                                *)
(***************************************************************************)
C20_Interleaved ==
    \A a, b \in Slots :
        /\ ~LostRace(host[a])
        /\ /\ host[a].pc = "done" /\ host[b].pc = "done"
           /\ host[a].seqno = 1 /\ host[b].seqno = 2
           => \/ SeriallyProcessed(a, b, host[a].before)
              \/ SeriallyProcessed(b, a, host[a].before)

====
